---- MODULE Spec2Model ----
(***************************************************************************)
(* Reactor/executor bridge of the classy crate: per-exchange HttpReactor,  *)
(* per-instance RootReactor, the LocalPool drain run inside every host     *)
(* callback, Launcher::launch with its ContextCreateStream, the outbound   *)
(* call future Request<T>, and the AsyncRootContext / AsyncHttpContext     *)
(* adapters.  One action per host callback; the scheduler drain that the   *)
(* callback runs is part of the action.                                    *)
(***************************************************************************)
EXTENDS Integers, Sequences, FiniteSets, TLC

\* Number of exchanges the host creates in one run.
MaxExchanges == 1

\* Number of outbound calls the host accepts in one run; it rejects the
\* dispatch of any further call.
MaxCalls == 2

\* EventKind, ranked by declaration order (event.rs, enum EventKind).
Start == 0
RequestHeaders == 1
RequestBody == 2
RequestTrailers == 3
ResponseHeaders == 4
ResponseBody == 5
ResponseTrailers == 6
ExchangeComplete == 7

EventKind == Start..ExchangeComplete

\* The `impl After<S> for E {}` items of event.rs, as pairs <<E, S>>.
AfterImpls ==
    {<<RequestHeaders, Start>>,
     <<RequestBody, Start>>, <<RequestBody, RequestHeaders>>,
     <<RequestTrailers, Start>>, <<RequestTrailers, RequestHeaders>>,
     <<RequestTrailers, RequestBody>>,
     <<ResponseHeaders, Start>>, <<ResponseHeaders, RequestHeaders>>,
     <<ResponseHeaders, RequestBody>>, <<ResponseHeaders, RequestTrailers>>,
     <<ResponseBody, Start>>, <<ResponseBody, RequestHeaders>>,
     <<ResponseBody, RequestBody>>, <<ResponseBody, RequestTrailers>>,
     <<ResponseBody, ResponseHeaders>>,
     <<ResponseTrailers, Start>>, <<ResponseTrailers, RequestHeaders>>,
     <<ResponseTrailers, RequestBody>>, <<ResponseTrailers, RequestTrailers>>,
     <<ResponseTrailers, ResponseHeaders>>, <<ResponseTrailers, ResponseBody>>,
     <<ExchangeComplete, Start>>}

\* E: After<S>
After(e, s) == <<e, s>> \in AfterImpls

\* A Before that also holds between a stage and itself.
Before_OrSame(a, b) == After(b, a) \/ a = b

\* Blanket impl: A: Before<B> where B: After<A>.
Before(a, b) == After(b, a)

\* Exchange<S>::send_response exists for S: After<Start> + Before<ResponseHeaders>.
SendResponseBound(s) == After(s, Start) /\ Before(s, ResponseHeaders)

\* The handle Exchange<S> has been consumed (moved into send_response).
NoHandle == 0 - 1

\* Option::None for identifiers.
None == 0 - 1

\* ExchangePhase of a stage (HttpReactor::phase).
phase(e) == IF e \in {Start, RequestHeaders, RequestBody, RequestTrailers}
            THEN "Request" ELSE "Response"

\* Context ids: Cid::Root(RootCid) and Cid::Http(HttpCid).
RootCidValue == 0
RootCid == [kind |-> "Root", id |-> RootCidValue]
HttpCid(x) == [kind |-> "Http", id |-> x]

\* Request.cid_and_waker = None
NoCid == [kind |-> "None", id |-> None]

\* The waker of the task AsyncRootContext::on_configure spawns, as the
\* client map names it (the futures of the exchanges are named by HttpCid).
ConfigTask == 0

(***************************************************************************)
(* Filter bodies.  A filter is a straight-line async function; its await   *)
(* points and reactor-visible calls are the operations below.              *)
(***************************************************************************)
Wait(e) == [op |-> "wait", e |-> e]
Send == [op |-> "send", e |-> None]
Await == [op |-> "await", e |-> None]
Respond == [op |-> "respond", e |-> None]
\* `futures::poll!(&mut request)`: one poll of the oldest Request held.
Poll == [op |-> "poll", e |-> None]
\* `drop(request)` of the oldest Request held.
Drop == [op |-> "drop", e |-> None]

CandidatePrograms ==
    {<<Wait(RequestHeaders)>>,
     <<Wait(ResponseHeaders)>>,
     <<Wait(RequestBody)>>,
     <<Wait(RequestHeaders), Wait(ResponseHeaders)>>,
     <<Wait(RequestHeaders), Respond>>,
     <<Wait(RequestHeaders), Send, Await>>,
     <<Wait(RequestHeaders), Send, Await, Respond>>,
     <<Wait(RequestHeaders), Send, Await, Wait(ResponseHeaders)>>,
     <<Wait(RequestHeaders), Send, Wait(ResponseHeaders), Await>>,
     <<Wait(RequestHeaders), Send, Send, Await, Await>>,
     <<Wait(RequestHeaders), Send, Wait(ResponseHeaders)>>,
     <<Wait(RequestHeaders), Send, Poll, Drop, Wait(ResponseHeaders)>>,
     <<Wait(ResponseHeaders), Respond>>,
     <<Wait(RequestHeaders), Wait(RequestHeaders)>>,
     <<Wait(ExchangeComplete)>>,
     <<Wait(RequestHeaders), Respond, Send, Await>>}

\* What rustc accepts: wait_for_event::<E> needs S: Before<E>, send_response
\* needs the bound above, and an awaited Request must have been sent.
RECURSIVE TypeChecks(_, _, _, _)
TypeChecks(p, i, s, held) ==
    IF i > Len(p) THEN TRUE
    ELSE LET o == p[i] IN
         CASE o.op = "wait" ->
                  s # NoHandle /\ Before(s, o.e) /\ TypeChecks(p, i + 1, o.e, held)
           [] o.op = "send" -> TypeChecks(p, i + 1, s, held + 1)
           [] o.op = "await" -> held > 0 /\ TypeChecks(p, i + 1, s, held - 1)
           [] o.op = "poll" -> held > 0 /\ TypeChecks(p, i + 1, s, held)
           [] o.op = "drop" -> held > 0 /\ TypeChecks(p, i + 1, s, held - 1)
           [] o.op = "respond" ->
                  s # NoHandle /\ SendResponseBound(s)
                  /\ TypeChecks(p, i + 1, NoHandle, held)
           [] OTHER -> FALSE

\* Launcher::launch awaits wait_for_event::<E>() on Exchange<Start> first.
Programs == {p \in CandidatePrograms : p[1].op = "wait" /\ TypeChecks(p, 1, Start, 0)}

VARIABLES
    state,      \* AsyncRootContext.state: ConfigurationState
    configured, \* the host has called on_configure
    filter,     \* the filter body given to Launcher::launch
    root,       \* RawRootReactor
    http,       \* HttpCid -> RawHttpReactor (the Rc<HttpReactor> objects)
    tasks,      \* HttpCid -> the per-exchange future inside for_each_concurrent
    outer,      \* the configure task spawned on the LocalPool
    host,       \* host side: contexts, stage progress, calls, signals received
    lastCb,     \* the host callback that ran last and what it returned
    pollLog,    \* the polls made by the drain of the last callback
    handlerLog, \* the event handlers called by the last callback
    results,    \* RequestId -> what the Request future resolved with
    comp        \* HttpCid -> what Launcher::launch did when the filter returned

vars == <<state, configured, filter, root, http, tasks, outer, host, lastCb,
          pollLog, handlerLog, results, comp>>


(***************************************************************************)
(* The drain works on a record m holding every mutable part of the plugin  *)
(* (and the host effects it produces); an action commits the record.       *)
(***************************************************************************)
Machine(cb) ==
    [state |-> state, root |-> root, http |-> http, tasks |-> tasks,
     outer |-> outer, host |-> host, pollLog |-> <<>>, hlog |-> <<>>,
     results |-> results, comp |-> comp, cb |-> cb]

\* HttpReactor::new
NewHttpReactor ==
    [cancelled_request |-> FALSE, paused_request |-> FALSE,
     paused_response |-> FALSE, current_event |-> Start,
     wakers |-> {}, last_id |-> 0]

\* paused() that reads the request flag whatever the phase.
paused_RequestOnly(r) == r.paused_request

\* HttpReactor::paused
paused(r) ==
    IF phase(r.current_event) = "Request" THEN r.paused_request
    ELSE r.paused_response

\* A set_paused that writes the flags of both phases.
set_paused_Both(r, b) == [r EXCEPT !.paused_request = b, !.paused_response = b]

\* HttpReactor::set_paused
set_paused(r, b) ==
    IF phase(r.current_event) = "Request" THEN [r EXCEPT !.paused_request = b]
    ELSE [r EXCEPT !.paused_response = b]

\* HttpReactor::cancel_request
cancel_request(r) == [r EXCEPT !.cancelled_request = TRUE]

\* RawHttpReactor::insert_waker: the id comes from WakerIdGenerator::generate.
insert_waker(r, e, t) ==
    [r EXCEPT !.wakers = @ \cup {[event |-> e, id |-> r.last_id, task |-> t]},
              !.last_id = @ + 1]

\* RawHttpReactor::remove_waker
remove_waker(r, e, id) ==
    [r EXCEPT !.wakers = {w \in @ : ~(w.event = e /\ w.id = id)}]

\* A waker whose wake() is lost.
WakeTasks_None(m, ts) == m

\* Waking the waker of the future of exchange t inside FuturesUnordered: the
\* future is queued for polling and the configure task is woken; the waker
\* of a future that already completed does nothing.
WakeTasks(m, ts) ==
    LET live == {t \in ts : t \in DOMAIN m.tasks /\ m.tasks[t].st = "pending"}
    IN [m EXCEPT !.tasks = [t \in DOMAIN m.tasks |->
                               IF t \in live
                               THEN [m.tasks[t] EXCEPT !.woken = TRUE]
                               ELSE m.tasks[t]],
                 !.outer.woken = @ \/ ((live # {} \/ ConfigTask \in ts)
                                        /\ m.outer.st = "running")]

\* notify that wakes the wakers of every stage up to the notified one.
notify_UpTo(m, x, e) ==
    LET ws == {w.task : w \in {v \in m.http[x].wakers : v.event <= e}}
    IN WakeTasks([m EXCEPT !.http[x].current_event = e], ws)

\* notify that records a response body chunk as a request body chunk.
notify_Mixup(m, x, e) ==
    LET ws == {w.task : w \in {v \in m.http[x].wakers : v.event = e}}
        rec == IF e = ResponseBody THEN RequestBody ELSE e
    IN WakeTasks([m EXCEPT !.http[x].current_event = rec], ws)

\* RawHttpReactor::notify: record the stage, wake the wakers registered for
\* exactly that stage.
notify(m, x, e) ==
    LET ws == {w.task : w \in {v \in m.http[x].wakers : v.event = e}}
    IN WakeTasks([m EXCEPT !.http[x].current_event = e], ws)

\* A current_event that reports Start when no exchange is active.
current_event_StartInRoot(m) ==
    IF m.root.active_cid.kind = "Http"
       /\ m.root.active_cid.id \in m.root.http_reactors
    THEN m.http[m.root.active_cid.id].current_event
    ELSE Start

\* RawRootReactor::current_event
current_event(m) ==
    IF m.root.active_cid.kind = "Http"
       /\ m.root.active_cid.id \in m.root.http_reactors
    THEN m.http[m.root.active_cid.id].current_event
    ELSE None

\* A set_active_cid that leaves the active context as it is.
set_active_cid_Keep(m, cid) == m

\* RawRootReactor::set_active_cid
set_active_cid(m, cid) == [m EXCEPT !.root.active_cid = cid]

\* set_paused that only logs.
root_set_paused_Noop(m, cid, b) == m

\* RawRootReactor::set_paused
root_set_paused(m, cid, b) ==
    IF cid.kind = "Http" /\ cid.id \in m.root.http_reactors
    THEN [m EXCEPT !.http[cid.id] = set_paused(@, b)]
    ELSE m

\* A remove that takes the entry of the lowest key when the key is absent.
MapRemove_OrOldest(f, k) ==
    IF k \in DOMAIN f \/ DOMAIN f = {} THEN [j \in DOMAIN f \ {k} |-> f[j]]
    ELSE LET o == CHOOSE j \in DOMAIN f : \A i \in DOMAIN f : j <= i
         IN [j \in DOMAIN f \ {o} |-> f[j]]

\* BTreeMap::remove on a map kept as a function.
MapRemove(f, k) == [j \in DOMAIN f \ {k} |-> f[j]]

\* RawRootReactor::remove_extractor / take_response / remove_client
remove_extractor(m, id) == [m EXCEPT !.root.extractors = MapRemove(@, id)]
remove_response(m, id) == [m EXCEPT !.root.responses = MapRemove(@, id)]
remove_client(m, id) == [m EXCEPT !.root.clients = MapRemove(@, id)]

\* A Drop that forgets the completed-response map.
DropRequest_KeepResponse(m, id) == remove_client(remove_extractor(m, id), id)

\* A Drop that forgets the client-waker map.
DropRequest_KeepClient(m, id) == remove_response(remove_extractor(m, id), id)

\* impl Drop for Request<T>
DropRequest(m, id) == remove_client(remove_response(remove_extractor(m, id), id), id)

\* The boxed extractor built by send(): applied to a response it yields a
\* value that names the call it was built for and the response it read.
Extract(tag, response) == <<tag, response.request_id>>

\* The Option<ResponseContent> stored when no extractor was found.
NoContent == <<>>

\* Err(HttpClientResponseError::AwaitedOnCreateContext)
AwaitedOnCreateContext == <<"AwaitedOnCreateContext">>

\* notify_response that takes the first stored extractor instead of the one
\* keyed by the response's request id.
notify_response_FirstExtractor(m, response) ==
    LET id == response.request_id
        ks == DOMAIN m.root.extractors
        k == CHOOSE j \in ks : \A i \in ks : j <= i
        content == IF ks # {} THEN Extract(m.root.extractors[k], response)
                   ELSE NoContent
        m1 == [m EXCEPT !.root.extractors = IF ks # {} THEN MapRemove(@, k) ELSE @,
                        !.root.responses = (id :> [response |-> response,
                                                    content |-> content]) @@ @]
    IN IF id \in DOMAIN m.root.clients
       THEN WakeTasks(m1, {m.root.clients[id]})
       ELSE m1

\* notify_response that stores the result and wakes nobody.
notify_response_NoWake(m, response) ==
    LET id == response.request_id
        content == IF id \in DOMAIN m.root.extractors
                   THEN Extract(m.root.extractors[id], response)
                   ELSE NoContent
    IN [m EXCEPT !.root.extractors = MapRemove(@, id),
                 !.root.responses = (id :> [response |-> response,
                                             content |-> content]) @@ @]

\* RawRootReactor::notify_response
notify_response(m, response) ==
    LET id == response.request_id
        content == IF id \in DOMAIN m.root.extractors
                   THEN Extract(m.root.extractors[id], response)
                   ELSE NoContent
        m1 == [m EXCEPT !.root.extractors = MapRemove(@, id),
                        !.root.responses = (id :> [response |-> response,
                                                    content |-> content]) @@ @]
    IN IF id \in DOMAIN m.root.clients
       THEN WakeTasks(m1, {m.root.clients[id]})
       ELSE m1

\* host.resume_http_request() / host.resume_http_response()
Resume(m, x, ph) == [m EXCEPT !.host.resumes[x][ph] = @ + 1]


(***************************************************************************)
(* Futures polled by the drain.  Each returns the machine after the poll;  *)
(* a poll that is Ready advances the filter's program counter.             *)
(***************************************************************************)
Logged(m, entry) ==
    [m EXCEPT !.pollLog = Append(@, entry @@ [active |-> m.root.active_cid])]

\* `self.reactor.current_event() >= S::kind()` with Ord for EventKind.
Reached_Strict(cur, e) == cur > e

Reached(cur, e) == cur >= e

\* An event_data that is populated at every stage already reached.
event_data_Reached(r, S) == IF Reached(r.current_event, S) THEN {S} ELSE {}

\* Exchange<S>::event_data: Some(EventData) exactly when the reactor's
\* current event is S::kind(); the Option is the set of its contents.
event_data(r, S) == IF r.current_event = S THEN {S} ELSE {}

\* impl Future for ExchangeFuture<S> (event.rs), polled by the future of
\* exchange x for stage e.
ExchangeFuturePoll(m, x, e) ==
    LET r0 == m.http[x]
        m1 == IF paused(r0)
              THEN Resume([m EXCEPT !.http[x] = set_paused(r0, FALSE)],
                          x, phase(r0.current_event))
              ELSE m
        r == m1.http[x]
        t == m1.tasks[x]
        ready == Reached(r.current_event, e)
        entry == [kind |-> "stage", task |-> x, e |-> e,
                  stage |-> r.current_event, ready |-> ready, id |-> None,
                  first |-> (t.wid = None)]
    IN IF ready
       THEN Logged([m1 EXCEPT
                       !.http[x] = IF t.wid # None THEN remove_waker(r, e, t.wid)
                                   ELSE r,
                       !.tasks[x].wid = None,
                       !.tasks[x].S = e,
                       !.tasks[x].pc = @ + 1], entry)
       ELSE IF t.wid = None
            THEN Logged([m1 EXCEPT !.http[x] = insert_waker(r, e, x),
                                   !.tasks[x].wid = r.last_id], entry)
            ELSE Logged(m1, entry)

\* impl Future for Request<T> (client.rs), polled by the future of exchange
\* x for the oldest Request it holds.
RequestPoll(m, x) ==
    LET t == m.tasks[x]
        q == Head(t.reqs)
        id == q.id
        entry == [kind |-> "call", task |-> x, e |-> None,
                  stage |-> current_event(m), ready |-> FALSE, id |-> id,
                  first |-> (q.cid = NoCid)]
        resolved(v) == [m EXCEPT !.results = (id :> [value |-> v,
                                                     kind |-> m.cb.kind,
                                                     token |-> m.cb.token]) @@ @,
                                 !.tasks[x].reqs = Tail(@),
                                 !.tasks[x].pc = @ + 1]
    IN IF current_event(m) = Start
       THEN Logged(DropRequest(resolved(AwaitedOnCreateContext), id),
                   [entry EXCEPT !.ready = TRUE])
       ELSE IF id \in DOMAIN m.root.responses
       THEN Logged(DropRequest(resolved(m.root.responses[id].content), id),
                   [entry EXCEPT !.ready = TRUE])
       ELSE IF q.cid = NoCid
       THEN LET cid == m.root.active_cid
                m1 == [m EXCEPT !.root.clients = (id :> x) @@ @]
                m2 == root_set_paused(m1, cid, TRUE)
            IN Logged([m2 EXCEPT !.tasks[x].reqs[1].cid = cid], entry)
       ELSE Logged(m, entry)

\* A send that stores the extractor although the dispatch was rejected.
SendRequest_StoresExtractor(m, x) ==
    LET id == m.host.nextCall
    IN IF id > MaxCalls
       THEN [m EXCEPT !.host.rejected = @ + 1,
                      !.root.extractors = (id :> id) @@ @,
                      !.tasks[x].pc = Len(filter) + 1]
       ELSE [m EXCEPT !.host.nextCall = @ + 1,
                      !.host.calls = (id :> [owner |-> m.cb.cid,
                                             delivered |-> FALSE]) @@ @,
                      !.root.extractors = (id :> id) @@ @,
                      !.tasks[x].reqs = Append(@, [id |-> id, cid |-> NoCid]),
                      !.tasks[x].pc = @ + 1]

\* RequestBuilder::send: the host assigns the call id and remembers the
\* context that dispatched; the boxed extractor is stored under the id.  When
\* the host rejects the dispatch, send returns the error and the filter
\* returns.
SendRequest(m, x) ==
    LET id == m.host.nextCall
    IN IF id > MaxCalls
       THEN [m EXCEPT !.host.rejected = @ + 1,
                      !.tasks[x].pc = Len(filter) + 1]
       ELSE [m EXCEPT !.host.nextCall = @ + 1,
                      !.host.calls = (id :> [owner |-> m.cb.cid,
                                             delivered |-> FALSE]) @@ @,
                      !.root.extractors = (id :> id) @@ @,
                      !.tasks[x].reqs = Append(@, [id |-> id, cid |-> NoCid]),
                      !.tasks[x].pc = @ + 1]

\* send_response that hands the response to the host before cancelling.
send_response_HostFirst(m, x) ==
    LET r1 == set_paused(m.http[x], TRUE)
        r2 == cancel_request(r1)
    IN [m EXCEPT !.http[x] = r2,
                 !.host.sent = @ \cup {[cid |-> x, by |-> "filter",
                                         stage |-> r1.current_event,
                                         paused |-> r1.paused_request
                                                    \/ r1.paused_response,
                                         cancelled |-> r1.cancelled_request]},
                 !.tasks[x].S = NoHandle,
                 !.tasks[x].pc = @ + 1]

\* Exchange::send_response: pause, cancel, then hand the response to the
\* host; the entry records the flags as they are when the host receives it.
send_response(m, x) ==
    LET r1 == set_paused(m.http[x], TRUE)
        r2 == cancel_request(r1)
    IN [m EXCEPT !.http[x] = r2,
                 !.host.sent = @ \cup {[cid |-> x, by |-> "filter",
                                         stage |-> r2.current_event,
                                         paused |-> IF phase(r2.current_event) = "Request"
                                                    THEN r2.paused_request
                                                    ELSE r2.paused_response,
                                         cancelled |-> r2.cancelled_request]},
                 !.tasks[x].S = NoHandle,
                 !.tasks[x].pc = @ + 1]

\* `futures::poll!` on the oldest Request: one poll; a Pending result leaves
\* the Request with the filter, which goes on.
PollOnce(m, x) ==
    [RequestPoll(m, x) EXCEPT
        !.tasks[x].pc = IF @ > m.tasks[x].pc THEN @ ELSE @ + 1]

\* The Request q goes out of scope: impl Drop for Request<T>.  The entry
\* records what the Request was when it was dropped: never polled (first),
\* answered but unread (ready).
Dropped(m, q) ==
    Logged(DropRequest(m, q.id),
           [kind |-> "drop", task |-> None, e |-> None, stage |-> None,
            ready |-> (q.id \in DOMAIN m.root.responses), id |-> q.id,
            first |-> (q.cid = NoCid)])

\* `drop(request)` in the filter body.
DropOldest(m, x) ==
    [Dropped(m, Head(m.tasks[x].reqs)) EXCEPT !.tasks[x].reqs = Tail(@),
                                              !.tasks[x].pc = @ + 1]

RECURSIVE DropAll(_, _)
DropAll(m, reqs) ==
    IF reqs = <<>> THEN m ELSE DropAll(Dropped(m, Head(reqs)), Tail(reqs))

\* `http_reactor.paused() && !http_reactor.cancelled_request()`
ShouldResume_IgnoreCancel(r) == paused(r)

ShouldResume(r) == paused(r) /\ ~r.cancelled_request

\* Launcher::launch, after `result.await`: the filter returned (its locals
\* are dropped); resume the exchange if it is paused and not cancelled.
FilterReturned(m, x) ==
    LET m1 == DropAll(m, m.tasks[x].reqs)
        r == m1.http[x]
        go == ShouldResume(r)
        m2 == IF go
              THEN Resume([m1 EXCEPT !.http[x] = set_paused(r, FALSE)],
                          x, phase(r.current_event))
              ELSE m1
    IN [m2 EXCEPT !.tasks[x].st = "done",
                  !.tasks[x].reqs = <<>>,
                  !.comp = (x :> [paused |-> paused(r),
                                  cancelled |-> r.cancelled_request,
                                  phase |-> phase(r.current_event),
                                  request |-> m2.host.resumes[x]["Request"]
                                              - m.host.resumes[x]["Request"],
                                  response |-> m2.host.resumes[x]["Response"]
                                               - m.host.resumes[x]["Response"],
                                  pausedAfter |-> paused(m2.http[x])]) @@ @]

\* One poll of the future of exchange x: run the filter until it suspends
\* or returns.
RECURSIVE PollFilter(_, _)
\* The filter made one step from m to m1: it goes on unless it suspended.
FilterStepped(m, x, m1) ==
    IF m1.tasks[x].pc > m.tasks[x].pc THEN PollFilter(m1, x) ELSE m1

PollFilter(m, x) ==
    LET t == m.tasks[x] IN
    IF t.pc > Len(filter) THEN FilterReturned(m, x)
    ELSE LET o == filter[t.pc]
         IN FilterStepped(m, x,
                CASE o.op = "wait" -> ExchangeFuturePoll(m, x, o.e)
                  [] o.op = "send" -> SendRequest(m, x)
                  [] o.op = "await" -> RequestPoll(m, x)
                  [] o.op = "respond" -> send_response(m, x)
                  [] o.op = "poll" -> PollOnce(m, x)
                  [] o.op = "drop" -> DropOldest(m, x))


(***************************************************************************)
(* The configure task: `launcher.launch(filter).await`, i.e. the           *)
(* ContextCreateStream mapped and driven by for_each_concurrent.           *)
(***************************************************************************)
\* The future pushed into FuturesUnordered for a new exchange; a pushed
\* future is queued for its first poll.
NewTask_NotQueued ==
    [st |-> "pending", pc |-> 1, woken |-> FALSE, S |-> Start, wid |-> None,
     reqs |-> <<>>]

NewTask ==
    [st |-> "pending", pc |-> 1, woken |-> TRUE, S |-> Start, wid |-> None,
     reqs |-> <<>>]

\* A take that leaves the reactor in the slot.
take_new_http_reactor_Peek(m) == m

\* RawRootReactor::take_new_http_reactor: Option::take on the handoff slot;
\* what it returns is the slot's content before the call.
take_new_http_reactor(m) == [m EXCEPT !.root.new_http_reactor = None]

\* A poll_next that does not look at the done flag.
ContextCreateStreamPoll_Endless(m) ==
    IF m.root.new_http_reactor # None
    THEN [take_new_http_reactor(m) EXCEPT
             !.tasks = (m.root.new_http_reactor :> NewTask) @@ @]
    ELSE IF ~m.outer.streamWaker
    THEN [m EXCEPT !.root.context_create_waker = TRUE,
                   !.outer.streamWaker = TRUE]
    ELSE m

\* impl Stream for ContextCreateStream: poll_next.
ContextCreateStreamPoll(m) ==
    IF m.root.done
    THEN [m EXCEPT !.root.context_create_waker = FALSE,
                   !.outer.stream = "closed"]
    ELSE IF m.root.new_http_reactor # None
    THEN [take_new_http_reactor(m) EXCEPT
             !.tasks = (m.root.new_http_reactor :> NewTask) @@ @]
    ELSE IF ~m.outer.streamWaker
    THEN [m EXCEPT !.root.context_create_waker = TRUE,
                   !.outer.streamWaker = TRUE]
    ELSE m

NumDone(m) == Cardinality({t \in DOMAIN m.tasks : m.tasks[t].st = "done"})

\* FuturesUnordered::poll_next: poll the queued futures, oldest exchange
\* first.
RECURSIVE PollQueued(_)
PollQueued(m) ==
    LET q == {t \in DOMAIN m.tasks : m.tasks[t].st = "pending" /\ m.tasks[t].woken}
    IN IF q = {} THEN m
       ELSE LET x == CHOOSE t \in q : \A u \in q : t <= u
            IN PollQueued(PollFilter([m EXCEPT !.tasks[x].woken = FALSE], x))

\* A `.then(...)` that records Finished whatever the function returned.
ConfigureReturned_AlwaysFinished(m, ok) ==
    [m EXCEPT !.state = "Finished", !.outer.st = "complete"]

\* The `.then(...)` of AsyncRootContext::on_configure: the configure function
\* returned; set the configuration state.
ConfigureReturned(m, ok) ==
    [m EXCEPT !.state = IF ok THEN "Finished" ELSE "Failed",
              !.outer.st = "complete"]

\* ForEachConcurrent::poll, followed by the return of launch when the stream
\* has ended and no future is left.
\* `contexts...for_each_concurrent(..).await` is over: the stream has ended
\* and no future is left.
LaunchDone(m) ==
    m.outer.stream = "closed" /\ NumDone(m) = Cardinality(DOMAIN m.tasks)

\* launch returned Ok(()): the configure function returns it, unless it
\* joined launch with a Request that is still pending.
LaunchReturned(m) ==
    IF m.outer.creq.id = None THEN ConfigureReturned(m, TRUE) ELSE m

RECURSIVE LaunchPoll(_)
\* m1 is m after the stream was polled, m2 is m1 after the queued futures
\* were polled.
ForEachPolled(m, m1, m2) ==
    IF LaunchDone(m2)
    THEN LaunchReturned(m2)
    ELSE IF DOMAIN m1.tasks # DOMAIN m.tasks \/ NumDone(m2) > NumDone(m)
    THEN LaunchPoll(m2)
    ELSE m2

StreamPolled(m, m1) == ForEachPolled(m, m1, PollQueued(m1))

LaunchPoll(m) ==
    StreamPolled(m, IF m.outer.stream = "open" THEN ContextCreateStreamPoll(m)
                    ELSE m)

\* RequestBuilder::send called by the configure function; a rejected
\* dispatch makes it return the error.
ConfigSend(m) ==
    LET id == m.host.nextCall
    IN IF id > MaxCalls
       THEN ConfigureReturned([m EXCEPT !.host.rejected = @ + 1], FALSE)
       ELSE [m EXCEPT !.host.nextCall = @ + 1,
                      !.host.calls = (id :> [owner |-> m.cb.cid,
                                             delivered |-> FALSE]) @@ @,
                      !.root.extractors = (id :> id) @@ @,
                      !.outer.creq = [id |-> id, cid |-> NoCid],
                      !.outer.cpc = IF m.outer.mode = "call_join"
                                    THEN "join" ELSE "await"]

\* The Request awaited by the configure function resolves with v and is
\* consumed; the function goes on to launch.
ConfigResolved(m, id, v) ==
    [m EXCEPT !.results = (id :> [value |-> v, kind |-> m.cb.kind,
                                  token |-> m.cb.token]) @@ @,
              !.outer.creq = [id |-> None, cid |-> NoCid],
              !.outer.cpc = IF m.outer.mode = "call_join"
                            THEN "join" ELSE "launch"]

\* impl Future for Request<T> (client.rs), polled by the configure task.
ConfigRequestPoll(m) ==
    LET q == m.outer.creq
        id == q.id
        entry == [kind |-> "call", task |-> ConfigTask, e |-> None,
                  stage |-> current_event(m), ready |-> FALSE, id |-> id,
                  first |-> (q.cid = NoCid)]
    IN IF current_event(m) = Start
       THEN Logged(DropRequest(ConfigResolved(m, id, AwaitedOnCreateContext), id),
                   [entry EXCEPT !.ready = TRUE])
       ELSE IF id \in DOMAIN m.root.responses
       THEN Logged(DropRequest(ConfigResolved(m, id, m.root.responses[id].content),
                               id),
                   [entry EXCEPT !.ready = TRUE])
       ELSE IF q.cid = NoCid
       THEN LET cid == m.root.active_cid
                m1 == [m EXCEPT !.root.clients = (id :> ConfigTask) @@ @]
                m2 == root_set_paused(m1, cid, TRUE)
            IN Logged([m2 EXCEPT !.outer.creq.cid = cid], entry)
       ELSE Logged(m, entry)

\* A configure function that sends an outbound call, awaits it and then
\* launches the filter.
RECURSIVE CallThenLaunchPoll(_)
\* The configure function made one step from m to m1: it goes on unless it
\* returned or the Request it awaits is pending.
ConfigStepped(m, m1) ==
    IF m1.outer.st = "running" /\ m1.outer.cpc # m.outer.cpc
    THEN CallThenLaunchPoll(m1)
    ELSE m1

CallThenLaunchPoll(m) ==
    CASE m.outer.cpc = "send" -> ConfigStepped(m, ConfigSend(m))
      [] m.outer.cpc = "await" -> ConfigStepped(m, ConfigRequestPoll(m))
      [] m.outer.cpc = "launch" -> LaunchPoll(m)

\* `join!(request, launcher.launch(filter))`: m1 is the machine after the
\* Request was polled (if it had not resolved before); launch is polled
\* unless it has completed.
JoinPolled(m1) ==
    IF LaunchDone(m1) THEN LaunchReturned(m1) ELSE LaunchPoll(m1)

\* A configure function that sends an outbound call and joins its Request
\* with the launch of the filter.
RECURSIVE CallJoinPoll(_)
JoinSent(m1) == IF m1.outer.st = "running" THEN CallJoinPoll(m1) ELSE m1

CallJoinPoll(m) ==
    CASE m.outer.cpc = "send" -> JoinSent(ConfigSend(m))
      [] m.outer.cpc = "join" ->
             JoinPolled(IF m.outer.creq.id # None THEN ConfigRequestPoll(m)
                        ELSE m)

\* One poll of the configure task.
ConfigurePoll(m) ==
    CASE m.outer.mode = "launch" -> LaunchPoll(m)
      [] m.outer.mode = "call_launch" -> CallThenLaunchPoll(m)
      [] m.outer.mode = "call_join" -> CallJoinPoll(m)
      [] m.outer.mode = "no_launch" -> ConfigureReturned(m, TRUE)
      [] m.outer.mode = "error" -> ConfigureReturned(m, FALSE)

\* A callback that returns without draining the executor.
run_until_stalled_NoPoll(m) == m

\* LocalPool::run_until_stalled
RECURSIVE run_until_stalled(_)
run_until_stalled(m) ==
    IF m.outer.st = "running" /\ m.outer.woken
    THEN run_until_stalled(ConfigurePoll([m EXCEPT !.outer.woken = FALSE]))
    ELSE m


(***************************************************************************)
(* Host callbacks.                                                         *)
(***************************************************************************)
Callback(kind, cid, event, token) ==
    [kind |-> kind, cid |-> cid, event |-> event, token |-> token]

Commit(m, action) ==
    /\ state' = m.state
    /\ root' = m.root
    /\ http' = m.http
    /\ tasks' = m.tasks
    /\ outer' = m.outer
    /\ host' = m.host
    /\ pollLog' = m.pollLog
    /\ handlerLog' = m.hlog
    /\ results' = m.results
    /\ comp' = m.comp
    /\ lastCb' = [kind |-> m.cb.kind, cid |-> m.cb.cid, event |-> m.cb.event,
                  token |-> m.cb.token, action |-> action]

\* The order in which the host delivers the stage callbacks of one exchange:
\* increasing rank, request headers first, response body and trailers only
\* after response headers; a body callback may repeat (chunks), and body and
\* trailers callbacks are absent when the message has none (end_of_stream).
HostMayDeliver(s, e) ==
    /\ e \in RequestHeaders..ResponseTrailers
    /\ e > s \/ (e = s /\ e \in {RequestBody, ResponseBody})
    /\ s = Start => e = RequestHeaders
    /\ e > ResponseHeaders => s >= ResponseHeaders

\* RootReactor::new and AsyncRootContext::new
Init ==
    /\ state = "Started"
    /\ configured = FALSE
    /\ filter = <<>>
    /\ root = [context_id |-> RootCidValue, active_cid |-> RootCid,
               context_create_waker |-> FALSE, new_http_reactor |-> None,
               http_reactors |-> {}, extractors |-> <<>>, clients |-> <<>>,
               responses |-> <<>>, done |-> FALSE]
    /\ http = <<>>
    /\ tasks = <<>>
    /\ outer = [st |-> "unspawned", woken |-> FALSE, stream |-> "open",
                streamWaker |-> FALSE, mode |-> "launch", cpc |-> "launch",
                creq |-> [id |-> None, cid |-> NoCid]]
    /\ host = [ctx |-> <<>>, hstage |-> <<>>, calls |-> <<>>, nextCall |-> 1,
               resumes |-> <<>>, sent |-> {}, rejected |-> 0]
    /\ lastCb = [kind |-> "none", cid |-> RootCid, event |-> None,
                 token |-> None, action |-> "none"]
    /\ pollLog = <<>>
    /\ handlerLog = <<>>
    /\ results = <<>>
    /\ comp = <<>>

\* AsyncRootContext::on_configure.  mode is what the configure function does:
\* its arguments cannot be extracted, it launches a filter, it sends an
\* outbound call and awaits it before launching, it sends one and joins it
\* with the launch, it returns Ok without launching, or it returns an error.
OnConfigure ==
    /\ ~configured
    /\ configured' = TRUE
    /\ \E mode \in {"extraction_error", "launch", "call_launch", "call_join",
                    "no_launch", "error"} :
       \E f \in IF mode \in {"launch", "call_launch", "call_join"}
                THEN Programs ELSE {<<>>} :
          /\ filter' = f
          /\ LET m0 == set_active_cid(
                           Machine(Callback("configure", RootCid, None, None)),
                           RootCid)
             IN IF mode = "extraction_error"
                THEN Commit([m0 EXCEPT !.state = "Failed"], "true")
                ELSE LET m1 == [m0 EXCEPT !.outer.st = "running",
                                          !.outer.woken = TRUE,
                                          !.outer.mode = mode,
                                          !.outer.cpc =
                                              IF mode \in {"call_launch",
                                                          "call_join"}
                                              THEN "send" ELSE "launch"]
                     IN \* the drain polls the filter of the new configuration
                        Commit(run_until_stalled(m1), "true")

\* A create_http_context that makes the new exchange the active context.
create_http_context_Activates(m, x) ==
    [m EXCEPT !.http = (x :> NewHttpReactor) @@ @,
              !.root.new_http_reactor = x,
              !.root.http_reactors = @ \cup {x},
              !.root.active_cid = HttpCid(x)]

\* RawRootReactor::create_http_context, up to the waker check.
create_http_context(m, x) ==
    [m EXCEPT !.http = (x :> NewHttpReactor) @@ @,
              !.root.new_http_reactor = x,
              !.root.http_reactors = @ \cup {x}]

\* A waker check that always finds a waker.
context_create_waker_armed_Always(m) == TRUE

\* `self.context_create_waker.as_ref()?` in
\* RawRootReactor::create_http_context: None is returned without a waker.
context_create_waker_armed(m) == m.root.context_create_waker

\* AsyncRootContext::create_http_context for the next context id.
CreateHttpContext ==
    LET x == Cardinality(DOMAIN host.ctx) + 1
        m0 == [Machine(Callback("create", RootCid, None, None)) EXCEPT
                  !.host.hstage = (x :> Start) @@ @,
                  !.host.resumes = (x :> [Request |-> 0, Response |-> 0]) @@ @]
        error(m) == [m EXCEPT !.host.ctx = (x :> "error") @@ @]
    IN /\ configured
       /\ ~root.done
       /\ x <= MaxExchanges
       /\ UNCHANGED <<configured, filter>>
       /\ IF state \in {"Failed", "Finished"}
          THEN Commit(error(m0), "error")
          ELSE LET m1 == create_http_context(m0, x)
               IN IF ~context_create_waker_armed(m1)
                  THEN Commit(error(m1), "error")
                  ELSE LET m2 == [m1 EXCEPT !.outer.woken =
                                                 @ \/ m1.outer.st = "running"]
                           m3 == run_until_stalled(set_active_cid(m2, HttpCid(x)))
                           m4 == set_active_cid(m3, RootCid)
                       IN Commit([m4 EXCEPT !.host.ctx = (x :> "live") @@ @],
                                 "live")

\* EventHandlerStack: the stages that have a handler list.
HandledStages == {RequestHeaders, ResponseHeaders}

\* The number of handlers the plugin registered for each of these stages.
NumHandlers == 2

\* AsyncHttpContext::dispatch and EventHandlerStack::dispatch: the handlers
\* of the stage are called in the order they were pushed, up to the first
\* that returns an error (handler number fail; 0 when none fails).
dispatch(m, x, e, fail) ==
    IF e \notin HandledStages THEN m
    ELSE [m EXCEPT !.hlog =
             [i \in 1..(IF fail = 0 THEN NumHandlers ELSE fail) |->
                 [index |-> i, stage |-> m.http[x].current_event,
                  polls |-> Len(m.pollLog),
                  result |-> IF i = fail THEN "err" ELSE "ok"]]]

\* A callback that drains the executor before it calls the handlers.
HandlersThenDrain_DrainFirst(m, x, e, fail) ==
    dispatch(run_until_stalled(m), x, e, fail)

\* A callback that returns without draining when a handler failed.
HandlersThenDrain_ErrorReturns(m, x, e, fail) ==
    IF fail # 0 THEN dispatch(m, x, e, fail)
    ELSE run_until_stalled(dispatch(m, x, e, fail))

\* AsyncHttpContext::notify after reactor.notify: the handlers are
\* dispatched, an error is logged, and the executor is drained.
HandlersThenDrain(m, x, e, fail) == run_until_stalled(dispatch(m, x, e, fail))

\* AsyncHttpContext::notify, called by the six stage callbacks.
StageCallback(x, e) ==
    /\ x \in DOMAIN host.ctx
    /\ host.ctx[x] = "live"
    /\ HostMayDeliver(host.hstage[x], e)
    /\ UNCHANGED <<configured, filter>>
    /\ LET m0 == [Machine(Callback("stage", HttpCid(x), e, None)) EXCEPT
                     !.host.hstage[x] = e]
           m1 == set_active_cid(m0, HttpCid(x))
           m2 == notify(m1, x, e)
       IN \E fail \in IF e \in HandledStages THEN 0..NumHandlers ELSE {0} :
             LET m3 == HandlersThenDrain(m2, x, e, fail)
             IN Commit(m3, IF paused(m3.http[x]) THEN "Pause" ELSE "Continue")

\* An error responder that sends nothing.
on_http_request_event_Silent(m, x) == m

\* ErrorContext::on_http_request_event: host.send_http_response(503, ..).
on_http_request_event(m, x) ==
    [m EXCEPT !.host.sent = @ \cup {[cid |-> x, by |-> "error", stage |-> None,
                                      paused |-> FALSE, cancelled |-> FALSE]}]

\* ErrorContext: request callbacks answer 503 and pause; the response
\* callbacks are the trait defaults.
ErrorStageCallback(x, e) ==
    /\ x \in DOMAIN host.ctx
    /\ host.ctx[x] = "error"
    /\ HostMayDeliver(host.hstage[x], e)
    /\ UNCHANGED <<configured, filter>>
    /\ LET m0 == [Machine(Callback("error_stage", HttpCid(x), e, None)) EXCEPT
                     !.host.hstage[x] = e]
       IN IF phase(e) = "Request"
          THEN Commit(on_http_request_event(m0, x), "Pause")
          ELSE Commit(m0, "Continue")

\* A host that delivers the response of a call to a context it has deleted.
HostDelivers_AfterDone(h, c) ==
    h.ctx[h.calls[c].owner.id] \in {"live", "gone"}

\* The host hands the response of call c to the context that dispatched it,
\* as long as that context exists.
HostDelivers(h, c) == h.ctx[h.calls[c].owner.id] = "live"

\* AsyncHttpContext::on_http_call_response.  The host delivers the response
\* of a call once, to the context that dispatched it, while it exists.
OnHttpCallResponse(c) ==
    /\ c \in DOMAIN host.calls
    /\ ~host.calls[c].delivered
    /\ host.calls[c].owner.kind = "Http"
    /\ HostDelivers(host, c)
    /\ UNCHANGED <<configured, filter>>
    /\ LET x == host.calls[c].owner.id
           m0 == [Machine(Callback("call_response", HttpCid(x), None, c)) EXCEPT
                     !.host.calls[c].delivered = TRUE]
           m1 == notify_response(m0, [request_id |-> c])
           m2 == set_active_cid(m1, HttpCid(x))
       IN Commit(run_until_stalled(m2), "none")

\* AsyncRootContext::on_http_call_response: the response of a call that was
\* dispatched while the root context was the host's current context.
RootOnHttpCallResponse(c) ==
    /\ c \in DOMAIN host.calls
    /\ ~host.calls[c].delivered
    /\ host.calls[c].owner.kind = "Root"
    /\ ~root.done
    /\ UNCHANGED <<configured, filter>>
    /\ LET m0 == [Machine(Callback("root_call_response", RootCid, None, c)) EXCEPT
                     !.host.calls[c].delivered = TRUE]
           m1 == notify_response(m0, [request_id |-> c])
           m2 == set_active_cid(m1, RootCid)
       IN Commit(run_until_stalled(m2), "none")

\* RawRootReactor::set_http_context_done
set_http_context_done(m, x) ==
    set_active_cid([m EXCEPT !.root.http_reactors = @ \ {x}], RootCid)

\* The Rc<HttpReactor> of x is freed when the table, the adapter and the
\* future of x have all let go of it.
Release(m, x) ==
    IF x \notin m.root.http_reactors
       /\ (x \notin DOMAIN m.tasks \/ m.tasks[x].st = "done")
    THEN [m EXCEPT !.http = MapRemove(@, x)]
    ELSE m

\* The host's own record of a stream ends with the stream.
HostForgets(h, x) ==
    [h EXCEPT !.ctx[x] = "gone",
              !.hstage[x] = None,
              !.resumes[x] = [Request |-> 0, Response |-> 0],
              !.sent = {s \in @ : s.cid # x}]

\* AsyncHttpContext::on_done, then impl Drop for AsyncHttpContext: the host
\* deletes the context as soon as on_done has returned true.
OnDone(x) ==
    /\ x \in DOMAIN host.ctx
    /\ host.ctx[x] = "live"
    /\ UNCHANGED <<configured, filter>>
    /\ LET m0 == [Machine(Callback("done", HttpCid(x), None, None)) EXCEPT
                     !.host = HostForgets(@, x)]
           m1 == set_http_context_done(m0, x)
           m2 == set_http_context_done(m1, x)
       IN Commit(Release(m2, x), "true")

\* ErrorContext has the default on_done: the completion of an exchange that
\* was answered by the error responder reaches no reactor.
ErrorOnDone(x) ==
    /\ x \in DOMAIN host.ctx
    /\ host.ctx[x] = "error"
    /\ UNCHANGED <<configured, filter>>
    /\ LET m0 == [Machine(Callback("error_done", HttpCid(x), None, None)) EXCEPT
                     !.host = HostForgets(@, x)]
       IN Commit(m0, "true")

\* AsyncRootContext::on_done.  The host ends the instance when none of its
\* exchanges is left.
RootOnDone ==
    /\ configured
    /\ ~root.done
    /\ \A x \in DOMAIN host.ctx : host.ctx[x] = "gone"
    /\ UNCHANGED <<configured, filter>>
    /\ LET m0 == Machine(Callback("root_done", RootCid, None, None))
       IN Commit([m0 EXCEPT !.root.done = TRUE], "true")

Exchanges == 1..MaxExchanges
CallIds == 1..MaxCalls

Next ==
    \/ OnConfigure
    \/ CreateHttpContext
    \/ \E x \in Exchanges, e \in EventKind : StageCallback(x, e)
    \/ \E x \in Exchanges, e \in EventKind : ErrorStageCallback(x, e)
    \/ \E c \in CallIds : OnHttpCallResponse(c)
    \/ \E c \in CallIds : RootOnHttpCallResponse(c)
    \/ \E x \in Exchanges : OnDone(x)
    \/ \E x \in Exchanges : ErrorOnDone(x)
    \/ RootOnDone

Spec == Init /\ [][Next]_vars


(***************************************************************************)
(* The plugin behind pdk-core: RootContextAdapter::create_http_context     *)
(* wraps every per-exchange context in an HttpContextAdapter, and the host *)
(* calls the adapter.                                                      *)
(***************************************************************************)
\* impl HttpContext for HttpContextAdapter: the stage callbacks it
\* overrides and forwards to the wrapped context.
AdapterForwards(e) == e \in {RequestHeaders, ResponseHeaders}

\* on_http_request_headers / on_http_response_headers of the adapter,
\* wrapping the per-exchange adapter of classy.
AdapterStageCallback(x, e) == AdapterForwards(e) /\ StageCallback(x, e)

\* The same, wrapping the error responder.
AdapterErrorStageCallback(x, e) == AdapterForwards(e) /\ ErrorStageCallback(x, e)

\* A stage callback the adapter does not override: the default method of
\* the HttpContext trait returns Continue; the wrapped context is not
\* called.
AdapterDefaultCallback(x, e) ==
    /\ x \in DOMAIN host.ctx
    /\ host.ctx[x] \in {"live", "error"}
    /\ HostMayDeliver(host.hstage[x], e)
    /\ ~AdapterForwards(e)
    /\ UNCHANGED <<configured, filter>>
    /\ Commit([Machine(Callback("adapter_default", HttpCid(x), e, None)) EXCEPT
                  !.host.hstage[x] = e],
              "Continue")

NextAdapter ==
    \/ OnConfigure
    \/ CreateHttpContext
    \/ \E x \in Exchanges, e \in EventKind : AdapterStageCallback(x, e)
    \/ \E x \in Exchanges, e \in EventKind : AdapterErrorStageCallback(x, e)
    \/ \E x \in Exchanges, e \in EventKind : AdapterDefaultCallback(x, e)
    \/ \E c \in CallIds : OnHttpCallResponse(c)
    \/ \E c \in CallIds : RootOnHttpCallResponse(c)
    \/ \E x \in Exchanges : OnDone(x)
    \/ \E x \in Exchanges : ErrorOnDone(x)
    \/ RootOnDone

SpecAdapter == Init /\ [][NextAdapter]_vars


(***************************************************************************)
(* Properties.                                                             *)
(***************************************************************************)
\* The flag of the phase of the current stage, read from the fields.
PhaseFlag(r) ==
    \/ r.current_event <= RequestTrailers /\ r.paused_request
    \/ r.current_event >= ResponseHeaders /\ r.paused_response

StagePolls == {i \in 1..Len(pollLog) : pollLog[i].kind = "stage"}
CallPolls == {i \in 1..Len(pollLog) : pollLog[i].kind = "call"}

\* The future of x is suspended in ExchangeFuture<E> with its waker registered.
SuspendedOnStage(x, e) ==
    /\ x \in DOMAIN tasks
    /\ tasks[x].st = "pending"
    /\ tasks[x].pc <= Len(filter)
    /\ filter[tasks[x].pc] = Wait(e)
    /\ tasks[x].wid # None

\* C1: a poll of the future made by wait_for_event<E> is Ready exactly when
\* the reactor's stage is at or past E; it is never Ready at an earlier stage.
C1_ReadyIffStageReached ==
    \A i \in StagePolls :
        pollLog[i].ready <=> pollLog[i].stage >= pollLog[i].e

\* C1 witness: the ResponseHeaders callback polled a future awaiting
\* ResponseHeaders that an earlier poll had left pending, and it was Ready.
C1_Witness ==
    /\ lastCb.kind = "stage"
    /\ lastCb.event = ResponseHeaders
    /\ \E i \in StagePolls :
          /\ pollLog[i].e = ResponseHeaders
          /\ pollLog[i].ready
          /\ ~pollLog[i].first

\* C2: at the end of a callback no future of a live exchange is still
\* suspended on a stage E that the reactor has reached or passed.
C2_NoMissedWakeup ==
    \A x \in DOMAIN tasks : \A e \in EventKind :
        (SuspendedOnStage(x, e) /\ host.ctx[x] = "live")
            => http[x].current_event < e

\* C3: the stage recorded in an exchange's reactor never decreases.
C3_StageNeverDecreases ==
    [][\A x \in DOMAIN http \cap DOMAIN http' :
           http'[x].current_event >= http[x].current_event]_vars

\* C3 witness: a repeated body callback left the stage where it was, past
\* several earlier stages.
C3_Witness ==
    /\ lastCb.kind = "stage"
    /\ lastCb.event = ResponseBody
    /\ http[lastCb.cid.id].current_event = ResponseBody


\* C4 as stated: an Outbound Call future resolves with its own extractor
\* applied to the response of its own call id, and it resolves in the drain
\* of the on_http_call_response callback that delivers that response.
C4_ResolvesInDeliveringDrain ==
    \A id \in DOMAIN results :
        results[id].value # AwaitedOnCreateContext =>
            /\ results[id].value = Extract(id, [request_id |-> id])
            /\ results[id].kind \in {"call_response", "root_call_response"}
            /\ results[id].token = id

\* A future of a live exchange is suspended in a Request whose waker is
\* registered while the response of that call is stored.
AwaitsStoredResponse(x) ==
    /\ tasks[x].st = "pending"
    /\ tasks[x].reqs # <<>>
    /\ tasks[x].pc <= Len(filter)
    /\ filter[tasks[x].pc] = Await
    /\ Head(tasks[x].reqs).cid # NoCid
    /\ Head(tasks[x].reqs).id \in DOMAIN root.responses

\* C4 amended: an Outbound Call future resolves with a value only with its
\* own extractor applied to the response of its own call id and never before
\* the host has delivered that response (the only other outcome is the
\* structural error of a poll made while an exchange is being created); a
\* future that is suspended on the call when the response is delivered
\* resolves in that callback's drain, any other at its next poll, so no
\* registered future is left suspended on a stored response.
C4_Correlation ==
    /\ \A id \in DOMAIN results :
          results[id].value # AwaitedOnCreateContext =>
              /\ results[id].value = Extract(id, [request_id |-> id])
              /\ id \in DOMAIN host.calls
              /\ host.calls[id].delivered
              /\ id \notin DOMAIN root.responses
    /\ \A x \in DOMAIN tasks : ~AwaitsStoredResponse(x)

\* C4 witness: two calls were outstanding and the response of the second was
\* delivered first; the second future resolved in the drain of the callback
\* that delivered the response of the first.
C4_Witness ==
    \E id \in DOMAIN results :
        /\ results[id].value = Extract(id, [request_id |-> id])
        /\ results[id].kind = "call_response"
        /\ results[id].token # id

\* C5: a stage callback of a live exchange returns Pause exactly when, after
\* its drain, the pause flag of the phase of the current stage is set.
C5_PauseIffPhaseFlag ==
    lastCb.kind = "stage" =>
        (lastCb.action = "Pause" <=> PhaseFlag(http[lastCb.cid.id]))

\* C5 witness: a response-phase callback returned Pause on the response flag.
C5_Witness ==
    /\ lastCb.kind = "stage"
    /\ lastCb.action = "Pause"
    /\ lastCb.event = ResponseHeaders
    /\ http[lastCb.cid.id].paused_response

\* The filter awaits ResponseHeaders and nothing later.
AwaitsResponseHeaders ==
    filter \in {<<Wait(ResponseHeaders)>>,
                <<Wait(RequestHeaders), Wait(ResponseHeaders)>>}

\* C6 as stated: with a filter that awaits ResponseHeaders the RequestHeaders
\* callback returns Pause while the filter is suspended.
C6_RequestHeadersPauses ==
    (/\ AwaitsResponseHeaders
     /\ lastCb.kind = "stage"
     /\ lastCb.event = RequestHeaders)
        => /\ tasks[lastCb.cid.id].st = "pending"
           /\ lastCb.action = "Pause"

\* C6 amended: with a filter that awaits ResponseHeaders the RequestHeaders
\* callback returns Continue while the filter is suspended (a stage wait
\* sets no pause flag), the RequestBody callback returns Continue without
\* polling the filter, and the ResponseHeaders callback resumes the filter,
\* the task completes, the pause flag is clear and it returns Continue.
C6_DirectiveSequence ==
    (AwaitsResponseHeaders /\ lastCb.kind = "stage") =>
        LET x == lastCb.cid.id IN
        /\ lastCb.event = RequestHeaders =>
              /\ SuspendedOnStage(x, ResponseHeaders)
              /\ ~PhaseFlag(http[x])
              /\ lastCb.action = "Continue"
        /\ lastCb.event = RequestBody =>
              /\ SuspendedOnStage(x, ResponseHeaders)
              /\ pollLog = <<>>
              /\ lastCb.action = "Continue"
        /\ lastCb.event = ResponseHeaders =>
              /\ \E i \in StagePolls : /\ pollLog[i].task = x
                                       /\ pollLog[i].e = ResponseHeaders
                                       /\ pollLog[i].ready
              /\ tasks[x].st = "done"
              /\ ~PhaseFlag(http[x])
              /\ lastCb.action = "Continue"

\* C6 witness: the end of the sequence: the ResponseHeaders callback
\* completed the filter, returned Continue and no resume was needed.
C6_Witness ==
    /\ filter = <<Wait(ResponseHeaders)>>
    /\ lastCb.kind = "stage"
    /\ lastCb.event = ResponseHeaders
    /\ lastCb.action = "Continue"
    /\ tasks[lastCb.cid.id].st = "done"
    /\ comp[lastCb.cid.id].request = 0
    /\ comp[lastCb.cid.id].response = 0

\* The first polls of the last drain that found no stored response, made by
\* a filter that awaits the Request (and so is suspended on it).
FirstPendingPolls ==
    {i \in CallPolls :
        /\ pollLog[i].first
        /\ ~pollLog[i].ready
        /\ pollLog[i].task \in DOMAIN tasks
        /\ tasks[pollLog[i].task].pc <= Len(filter)
        /\ filter[tasks[pollLog[i].task].pc] = Await
        /\ tasks[pollLog[i].task].reqs # <<>>
        /\ Head(tasks[pollLog[i].task].reqs).id = pollLog[i].id}

\* The future of x is suspended in a Request that has recorded its waker and
\* whose response is not stored.
SuspendedOnCall(x) ==
    /\ tasks[x].st = "pending"
    /\ tasks[x].pc <= Len(filter)
    /\ filter[tasks[x].pc] = Await
    /\ tasks[x].reqs # <<>>
    /\ Head(tasks[x].reqs).cid # NoCid
    /\ Head(tasks[x].reqs).id \notin DOMAIN root.responses

\* The parts of the machine a poll can change, the poll log aside.
Effects(m) == <<m.state, m.root, m.http, m.tasks, m.outer, m.host, m.results,
                m.comp>>

C8_ResumeOnCompletion ==
    /\ \A x \in DOMAIN comp :
          LET c == comp[x] IN
          IF c.paused /\ ~c.cancelled
          THEN /\ ~c.pausedAfter
               /\ c.request = (IF c.phase = "Request" THEN 1 ELSE 0)
               /\ c.response = (IF c.phase = "Response" THEN 1 ELSE 0)
          ELSE c.request = 0 /\ c.response = 0
    /\ \A x \in DOMAIN tasks \cap DOMAIN http :
          (tasks[x].st = "done" /\ ~http[x].cancelled_request)
              => ~PhaseFlag(http[x])

\* C8 witness: a filter returned in the request phase while paused by an
\* outbound call, and the request was resumed.
C8_Witness ==
    \E x \in DOMAIN comp :
        /\ comp[x].paused
        /\ ~comp[x].cancelled
        /\ comp[x].phase = "Request"
        /\ comp[x].request = 1

FilterResponses == {s \in host.sent : s.by = "filter"}

\* C9: when the host receives the response of send_response, the pause flag
\* of the current phase and the cancelled flag are already set.
C9_FlagsSetBeforeHandOff ==
    \A s \in FilterResponses : s.paused /\ s.cancelled

\* C9 witness: a filter answered at RequestHeaders.
C9_Witness ==
    \E s \in FilterResponses : s.stage = RequestHeaders /\ s.cid \in DOMAIN comp

\* C10: send_response is executed only while the stage of the exchange is
\* RequestHeaders, RequestBody or RequestTrailers.
C10_OnlyBeforeResponseHeaders ==
    \A s \in FilterResponses :
        s.stage \in {RequestHeaders, RequestBody, RequestTrailers}

\* The Requests destroyed by the drain of the last callback.
DropPolls == {i \in DOMAIN pollLog : pollLog[i].kind = "drop"}

\* The call ids that have an entry in one of the three maps of the root
\* reactor r.
Mapped(r) == DOMAIN r.extractors \cup DOMAIN r.clients \cup DOMAIN r.responses

\* C11: destroying an Outbound Call (never polled, pending with a registered
\* waker, or answered but unread) removes its call id from the extractor,
\* client-waker and completed-response maps: right after the destructor none
\* of the three maps has an entry for the id, and none has one when the
\* callback that destroyed it returns.
C11_DropClearsMaps ==
    /\ \A i \in DropPolls : pollLog[i].id \notin Mapped(root)
    /\ \A id \in CallIds :
          id \notin Mapped(DropRequest(Machine(lastCb), id).root)

\* A Request that was pending with a registered waker was destroyed, one
\* that was never polled was, or one whose response was stored unread was.
C11_Witness ==
    \E i \in DropPolls : ~pollLog[i].first /\ ~pollLog[i].ready

C11_WitnessNeverPolled ==
    \E i \in DropPolls : pollLog[i].first /\ ~pollLog[i].ready

C11_WitnessUnread ==
    \E i \in DropPolls : pollLog[i].ready

\* The host delivers the response of call c in this step.
Delivers(c) ==
    /\ c \in DOMAIN host.calls
    /\ ~host.calls[c].delivered
    /\ host'.calls[c].delivered

\* C12: notify_response for a call id without a stored extractor (the
\* Outbound Call was dropped before) is a no-op: the callback that delivers
\* the response adds nothing to the completed-response map and wakes nobody,
\* so no future is polled in its drain.
C12_NoExtractorNoOp ==
    [][\A c \in CallIds :
          Delivers(c) /\ c \notin DOMAIN root.extractors
              => (DOMAIN root'.responses \subseteq DOMAIN root.responses
                  /\ pollLog' = <<>>)]_vars

\* C13: when the host delivers the response of an Outbound Call that was
\* dropped before (its extractor and its client waker removed), the callback
\* completes normally and wakes nobody: no future is polled in its drain, no
\* task and no Request changes, nothing resolves.
C13_DroppedThenDelivered ==
    [][\A c \in CallIds :
          Delivers(c) /\ c \notin DOMAIN root.extractors
              => /\ pollLog' = <<>>
                 /\ tasks' = tasks
                 /\ outer' = outer
                 /\ results' = results
                 /\ lastCb'.kind \in {"call_response", "root_call_response"}
                 /\ lastCb'.token = c]_vars

\* The response of a call was delivered after the filter had polled the
\* Request once (registering its waker) and dropped it, while the task of
\* the exchange is suspended.
C13_Witness ==
    /\ lastCb.kind = "call_response"
    /\ lastCb.token \in DOMAIN root.responses
    /\ root.responses[lastCb.token].content = NoContent
    /\ \E i \in DOMAIN filter : filter[i] = Poll
    /\ \E x \in DOMAIN tasks : tasks[x].st = "pending" /\ tasks[x].wid # None

\* The tasks queued for polling in machine m (the configure task included).
Queued(m) ==
    {t \in DOMAIN m.tasks : m.tasks[t].woken}
        \cup (IF m.outer.woken THEN {ConfigTask} ELSE {})

\* The futures a wake of the client entry of call c queues in machine m.
ClientOf(m, c) ==
    IF c \notin DOMAIN m.root.clients THEN {}
    ELSE LET t == m.root.clients[c]
         IN IF t = ConfigTask
            THEN (IF m.outer.st = "running" THEN {ConfigTask} ELSE {})
            ELSE IF t \in DOMAIN m.tasks /\ m.tasks[t].st = "pending"
            THEN {t} \cup (IF m.outer.st = "running" THEN {ConfigTask} ELSE {})
            ELSE {}

\* C14: notify_response for a call id with a stored extractor removes that
\* extractor (and no other), stores under the id the response together with
\* the value of the extractor applied to it, and wakes the registered client
\* waker and no other; the stored pair is taken by the first remove_response
\* and a second one finds nothing.
C14_NotifyResponseWithExtractor ==
    \A c \in DOMAIN root.extractors :
        LET m == Machine(lastCb)
            response == [request_id |-> c]
            n == notify_response(m, response)
            taken == remove_response(n, c)
        IN /\ n.root.extractors = MapRemove(root.extractors, c)
           /\ c \in DOMAIN n.root.responses
           /\ n.root.responses[c] =
                  [response |-> response,
                   content |-> Extract(root.extractors[c], response)]
           /\ \A d \in DOMAIN root.responses : n.root.responses[d] = root.responses[d]
           /\ n.root.clients = root.clients
           /\ Queued(n) = Queued(m) \cup ClientOf(m, c)
           /\ c \notin DOMAIN taken.root.responses
           /\ remove_response(taken, c) = taken

\* The response of a call was delivered while its extractor was stored and
\* the future awaiting it had registered its waker; the future was woken and
\* took the stored pair in the same callback.
C14_Witness ==
    /\ lastCb.kind \in {"call_response", "root_call_response"}
    /\ lastCb.token \in DOMAIN results
    /\ results[lastCb.token].value =
           Extract(lastCb.token, [request_id |-> lastCb.token])
    /\ \E i \in CallPolls : pollLog[i].id = lastCb.token /\ pollLog[i].ready
                             /\ ~pollLog[i].first
    /\ lastCb.token \notin Mapped(root)

\* C15: after RawRootReactor::create_http_context for context id x the
\* handoff slot holds the reactor created for x; the first take returns it
\* and empties the slot, so that a further take before the next creation
\* returns nothing.  In a run, the stream has taken the reactor of every
\* exchange that got a task, and an exchange has at most that one task.
C15_SingleHandOff ==
    /\ \A x \in Exchanges \ DOMAIN http :
          LET n == create_http_context(Machine(lastCb), x)
              first == take_new_http_reactor(n)
              second == take_new_http_reactor(first)
          IN /\ n.root.new_http_reactor = x
             /\ n.http[x] = NewHttpReactor
             /\ first.root.new_http_reactor = None
             /\ second = first
    /\ root.new_http_reactor # None => root.new_http_reactor \notin DOMAIN tasks

\* An exchange was created and the stream took its reactor from the slot in
\* the creation callback, leaving the slot empty.
C15_Witness ==
    /\ lastCb.kind = "create"
    /\ lastCb.action = "live"
    /\ root.new_http_reactor = None
    /\ root.http_reactors # {}
    /\ root.http_reactors \subseteq DOMAIN tasks

\* The context id of the exchange created last.
Newest == Cardinality(DOMAIN host.ctx)

ConfigureFailed ==
    /\ outer.st = "complete"
    /\ \/ outer.mode = "error"
       \/ outer.mode \in {"call_launch", "call_join"} /\ outer.cpc = "send"

\* What the configuration state must be, given what happened to the
\* configure task.
StateOfTask ==
    IF ~configured THEN "Started"
    ELSE IF outer.st = "unspawned" THEN "Failed"
    ELSE IF outer.st = "running" THEN "Started"
    ELSE IF ConfigureFailed THEN "Failed"
    ELSE "Finished"

\* C17: the configuration state is Started until the configure task ends; it
\* is Finished exactly when the task completed without error and Failed
\* exactly when the arguments of the configure function could not be
\* resolved or the task returned an error; once Finished or Failed it never
\* changes.
C17_StateChangesOnce ==
    /\ [](state = StateOfTask)
    /\ [][state # "Started" => state' = state]_vars

\* The configure task completed without error and callbacks were delivered
\* afterwards: the state is still Finished.
C17_Witness ==
    /\ state = "Finished"
    /\ outer.st = "complete"
    /\ lastCb.kind # "configure"

\* The host creates an exchange in this step.
Creates == DOMAIN host'.ctx # DOMAIN host.ctx

\* The synthetic responses the error responder of exchange x sent.
ErrorResponses(x) == {r \in host.sent : r.cid = x /\ r.by = "error"}

\* C18: once the configuration state is Failed, an exchange created
\* afterwards gets the error responder and not a live adapter, no filter
\* task exists or is polled, and every request-stage callback of such an
\* exchange sends the synthetic error response and returns Pause.
C18_FailedGivesErrorResponder ==
    /\ [](state = "Failed" =>
            /\ tasks = <<>> /\ pollLog = <<>>
            /\ \A x \in DOMAIN host.ctx : host.ctx[x] # "live"
            /\ (lastCb.kind = "error_stage" /\ phase(lastCb.event) = "Request"
                   => /\ lastCb.action = "Pause"
                      /\ ErrorResponses(lastCb.cid.id) # {}))
    /\ [][state = "Failed" /\ Creates
            => /\ lastCb'.kind = "create" /\ lastCb'.action = "error"
               /\ host'.ctx[Cardinality(DOMAIN host'.ctx)] = "error"]_vars

\* After a failed configuration an exchange was created and its request
\* headers callback was answered with the synthetic response and Pause.
C18_Witness ==
    /\ state = "Failed"
    /\ lastCb.kind = "error_stage"
    /\ lastCb.event = RequestHeaders
    /\ lastCb.action = "Pause"
    /\ ErrorResponses(lastCb.cid.id) # {}

\* C19: an exchange created after the configure task has finished, or while
\* the state is Started and no waker of the New-Exchange Sequence is armed,
\* gets the error responder, never a live adapter; the creation callback
\* returns normally, polls no filter and leaves the configuration state as
\* it was.
C19_InconsistentStateGivesErrorResponder ==
    [][Creates /\ (state = "Finished"
                    \/ (state = "Started" /\ ~root.context_create_waker))
          => /\ lastCb'.kind = "create" /\ lastCb'.action = "error"
             /\ host'.ctx[Cardinality(DOMAIN host'.ctx)] = "error"
             /\ \A x \in DOMAIN host'.ctx :
                   host'.ctx[x] = "live" => x \in DOMAIN host.ctx
             /\ state' = state
             /\ tasks' = tasks
             /\ pollLog' = <<>>]_vars

\* An exchange was created while the configure task was suspended on an
\* outbound call, before it launched: the state is Started, no waker is
\* armed, and the exchange got the error responder.
C19_Witness ==
    /\ lastCb.kind = "create" /\ lastCb.action = "error"
    /\ state = "Started"
    /\ outer.st = "running"
    /\ ~root.context_create_waker
    /\ host.ctx[Newest] = "error"

\* An exchange was created after the configure task had finished.
C19_WitnessFinished ==
    /\ lastCb.kind = "create" /\ lastCb.action = "error"
    /\ state = "Finished"
    /\ host.ctx[Newest] = "error"

\* The polls of Outbound Call futures made by the last drain while the
\* instance (configuration) context was the active context: current_event()
\* was None.
RootContextPolls == {i \in CallPolls : pollLog[i].stage = None}

\* The polls of Outbound Call futures made by the last drain while the
\* active context was an exchange at stage Start.
StartPolls == {i \in CallPolls : pollLog[i].stage = Start}

\* The poll logged at i returned Ready(Err(AwaitedOnCreateContext)).
StructuralError(i) ==
    /\ pollLog[i].ready
    /\ pollLog[i].id \in DOMAIN results
    /\ results[pollLog[i].id].value = AwaitedOnCreateContext

\* C20 as stated: a poll of an Outbound Call future made while the instance
\* context is the active context returns Ready with the structural error and
\* registers no client waker.
C20_ConfigContextPollErrors ==
    \A i \in RootContextPolls :
        StructuralError(i) /\ pollLog[i].id \notin DOMAIN root.clients

\* C20 amended: the structural error is the result of a poll made while the
\* active context is an exchange at stage Start, that is in the drain of the
\* callback that creates the exchange; such a poll is Ready at once, leaves no
\* entry for the call in the maps and pauses nothing.  A poll made while the
\* instance context is active is an ordinary poll: Ready with the extracted
\* value when the response is stored, otherwise Pending with the client
\* waker registered.
C20_StructuralErrorAtStart ==
    /\ \A i \in StartPolls :
          /\ StructuralError(i)
          /\ pollLog[i].id \notin Mapped(root)
          /\ lastCb.kind = "create" /\ lastCb.action = "live"
          /\ ~http[Newest].paused_request /\ ~http[Newest].paused_response
    /\ \A i \in RootContextPolls :
          LET id == pollLog[i].id
          IN IF pollLog[i].ready
             THEN /\ id \in DOMAIN results
                  /\ results[id].value = Extract(id, [request_id |-> id])
             ELSE /\ id \notin DOMAIN results
                  /\ id \in DOMAIN root.clients
                  /\ root.clients[id] = pollLog[i].task
    /\ \A id \in DOMAIN results :
          results[id].value = AwaitedOnCreateContext => results[id].kind = "create"

\* The configure task, which joined an outbound call with the launch, was
\* polled in the drain of an exchange creation and its Request resolved
\* with the structural error.
C20_Witness ==
    /\ lastCb.kind = "create"
    /\ \E i \in StartPolls : pollLog[i].task = ConfigTask /\ StructuralError(i)

\* The configure task polled its Request in on_configure and is suspended
\* on it with its client waker registered.
C20_WitnessPending ==
    /\ lastCb.kind = "configure"
    /\ \E i \in RootContextPolls :
          /\ ~pollLog[i].ready
          /\ pollLog[i].id \in DOMAIN root.clients
          /\ root.clients[pollLog[i].id] = ConfigTask

\* The exchanges whose completion the host has signalled.
Completed == {x \in DOMAIN host.ctx : host.ctx[x] = "gone"}

\* The host signals the completion of exchange x in this step.
Completes(x) ==
    /\ x \in DOMAIN host.ctx
    /\ host.ctx[x] # "gone"
    /\ host'.ctx[x] = "gone"

C22_CompletionClearsTable ==
    [][\A x \in Exchanges :
          Completes(x)
              => /\ x \notin root'.http_reactors
                 /\ root'.active_cid = RootCid
                 /\ root'.http_reactors \ {x} = root.http_reactors \ {x}
                 /\ LET m == [Machine(lastCb) EXCEPT !.root = root']
                    IN set_http_context_done(m, x) = m]_vars

\* C23: event_data() on Exchange<S> is populated if and only if S is the
\* stage of the last stage callback the exchange received: with request
\* headers delivered it is present for RequestHeaders and absent for
\* RequestBody, and once the request body was delivered it is absent for
\* RequestHeaders.
C23_EventDataAtExactStage ==
    \A x \in DOMAIN host.ctx :
       host.ctx[x] = "live"
           => /\ \A S \in EventKind :
                    event_data(http[x], S) # {} <=> host.hstage[x] = S
              /\ host.hstage[x] = RequestHeaders
                    => /\ event_data(http[x], RequestHeaders) = {RequestHeaders}
                       /\ event_data(http[x], RequestBody) = {}
              /\ host.hstage[x] = RequestBody
                    => event_data(http[x], RequestHeaders) = {}

C23_Witness ==
    /\ lastCb.kind = "stage"
    /\ lastCb.event = RequestBody
    /\ host.ctx[lastCb.cid.id] = "live"
    /\ event_data(http[lastCb.cid.id], RequestBody) = {RequestBody}
    /\ event_data(http[lastCb.cid.id], RequestHeaders) = {}

\* C24: in the callback that delivers the response of an outbound call to a
\* context, every poll of the drain runs with the active context set to the
\* context of the callback (the exchange for a per-exchange context, the
\* instance for the root context), and the same holds for the polls of the
\* drain of every stage callback, which sets it to its exchange before
\* notify; the callback returns with that active context.
C24_ActiveContextSetBeforeDrain ==
    lastCb.kind \in {"stage", "call_response", "root_call_response"}
        => /\ \A i \in DOMAIN pollLog : pollLog[i].active = lastCb.cid
           /\ root.active_cid = lastCb.cid
           /\ lastCb.kind = "root_call_response" => lastCb.cid = RootCid
           /\ lastCb.kind # "root_call_response"
                 => lastCb.cid \in {HttpCid(x) : x \in DOMAIN host.ctx}

\* The response of a call of a filter arrives after the response of a call
\* of the configure function made the instance the active context.
C24_Witness ==
    /\ lastCb.kind = "call_response"
    /\ \E i \in CallPolls : pollLog[i].active = lastCb.cid /\ pollLog[i].ready
    /\ \E c \in DOMAIN host.calls :
          host.calls[c].owner = RootCid /\ host.calls[c].delivered

\* The response of a call of the configure function resolves its Request.
C24_WitnessRoot ==
    /\ lastCb.kind = "root_call_response"
    /\ \E i \in CallPolls : pollLog[i].active = RootCid /\ pollLog[i].ready

\* A stage callback whose drain polls the filter.
C24_WitnessStage ==
    /\ lastCb.kind = "stage"
    /\ \E i \in StagePolls : pollLog[i].active = lastCb.cid /\ pollLog[i].ready

\* C25: when a host callback returns, no task that was woken remains
\* unpolled: neither the configure task nor the future of any exchange is
\* queued for a poll.
C25_DrainedToStall ==
    /\ outer.st = "running" => ~outer.woken
    /\ \A x \in DOMAIN tasks : tasks[x].st = "pending" => ~tasks[x].woken

\* The response of an outbound call woke the future awaiting it, and the
\* drain of the callback polled that future again.
C25_Witness ==
    /\ lastCb.kind \in {"call_response", "root_call_response"}
    /\ \E i \in CallPolls :
          /\ pollLog[i].id = lastCb.token
          /\ ~pollLog[i].first
          /\ pollLog[i].ready
    /\ outer.st = "running"

\* The launch future exists and has not returned.
Launching == outer.st = "running" /\ outer.cpc \in {"launch", "join"}

AllTasksDone == \A x \in DOMAIN tasks : tasks[x].st = "done"

\* C26: while the root reactor is not marked done the stream of new
\* exchanges has not ended and a further poll does not end it; an exchange
\* that was given to the filter has been yielded, and a yielded reactor is
\* not in the handoff slot, so it is not yielded again.  Once the root
\* reactor is marked done, the next poll of launch ends the stream and
\* clears the creation waker, and launch returns in that poll exactly when
\* no exchange future is pending; a later poll leaves the stream ended.
C26_StreamEndsWhenDone ==
    /\ ~root.done
          => /\ outer.stream = "open"
             /\ ContextCreateStreamPoll(Machine(lastCb)).outer.stream = "open"
    /\ \A x \in DOMAIN host.ctx : host.ctx[x] = "live" => x \in DOMAIN tasks
    /\ root.new_http_reactor \notin DOMAIN tasks
    /\ root.done /\ Launching
          => LET m1 == ContextCreateStreamPoll(Machine(lastCb))
                 m2 == LaunchPoll(Machine(lastCb))
             IN /\ m1.outer.stream = "closed"
                /\ ~m1.root.context_create_waker
                /\ m1.tasks = tasks
                /\ m2.outer.stream = "closed"
                /\ ~m2.root.context_create_waker
                /\ LaunchDone(m2) <=> AllTasksDone
                /\ AllTasksDone /\ outer.creq.id = None
                      => m2.outer.st = "complete" /\ m2.state = "Finished"
                /\ ~AllTasksDone => m2.outer.st = "running" /\ m2.tasks = tasks
                /\ m2.outer.st = "running" => LaunchPoll(m2) = m2

\* The root context is done while launch is suspended on the stream with its
\* waker registered, and the filter of an exchange has returned.
C26_Witness ==
    /\ root.done
    /\ Launching
    /\ root.context_create_waker
    /\ tasks # <<>>
    /\ AllTasksDone

\* The same with an exchange future that is still suspended.
C26_WitnessPending ==
    /\ root.done
    /\ Launching
    /\ root.context_create_waker
    /\ \E x \in DOMAIN tasks : tasks[x].st = "pending"

\* The host accepts no further outbound call.
HostRejects == host.nextCall > MaxCalls

\* C27: when the host rejects the dispatch of an outbound call, send
\* returns the error at once: the call is offered to the host once, no call
\* id is issued, and the extractors, the client wakers and the responses of
\* the root reactor are as before, as are the Requests the caller holds.
C27_RejectedSendChangesNothing ==
    /\ Cardinality(DOMAIN host.calls) = host.nextCall - 1
    /\ \A x \in DOMAIN tasks :
          HostRejects /\ tasks[x].st = "pending"
              => LET m1 == SendRequest(Machine(lastCb), x)
                 IN /\ m1.root = root
                    /\ m1.host.rejected = host.rejected + 1
                    /\ m1.host.calls = host.calls
                    /\ m1.host.nextCall = host.nextCall
                    /\ m1.tasks[x].reqs = tasks[x].reqs
                    /\ m1.tasks[x].pc > Len(filter)
                    /\ m1.results = results
    /\ HostRejects /\ outer.st = "running"
          => LET m1 == ConfigSend(Machine(lastCb))
             IN /\ m1.root = root
                /\ m1.host.rejected = host.rejected + 1
                /\ m1.host.calls = host.calls
                /\ m1.host.nextCall = host.nextCall
                /\ m1.outer.creq = outer.creq
                /\ m1.state = "Failed"

\* The host has issued every call id it will issue, a filter is suspended
\* and the root reactor holds an extractor, a waker or a response of an
\* earlier call.
C27_Witness ==
    /\ HostRejects
    /\ Mapped(root) # {}
    /\ \E x \in DOMAIN tasks : tasks[x].st = "pending"

\* A send of a filter was rejected in a run and the filter returned.
C27_WitnessRejected ==
    /\ host.rejected > 0
    /\ lastCb.kind \in {"stage", "call_response"}
    /\ \E x \in DOMAIN tasks : tasks[x].st = "done"

\* The positions of the stage waits of the launched filter.
Waits == {i \in DOMAIN filter : filter[i].op = "wait"}

\* C28: the bound S: Before<E> of wait_for_event holds only for a stage E
\* of strictly higher rank than S; so the stages a launched filter waits for
\* are strictly increasing from Start, and the handle a filter future holds
\* is that of its last completed wait, above the stages of all earlier waits.
C28_WaitOnlyForLaterStage ==
    /\ \A S \in EventKind, E \in EventKind : Before(S, E) => E > S
    /\ \A i \in Waits : /\ filter[i].e > Start
                        /\ \A j \in Waits : j < i => filter[j].e < filter[i].e
    /\ \A x \in DOMAIN tasks :
          tasks[x].S \notin {Start, NoHandle}
              => \E i \in Waits :
                    /\ i < tasks[x].pc
                    /\ filter[i].e = tasks[x].S
                    /\ \A j \in Waits : j < i => filter[j].e < tasks[x].S

\* A filter future passed two waits and holds the handle of the second.
C28_Witness ==
    \E x \in DOMAIN tasks :
       \E i \in Waits, j \in Waits :
          /\ j < i
          /\ i < tasks[x].pc
          /\ tasks[x].S = filter[i].e
          /\ filter[j].e < tasks[x].S

\* The call ids of the model and one id the host never issued.
RemovableIds == 1..(MaxCalls + 1)

\* C29: remove_client, remove_extractor and remove_response applied twice
\* for a call id give the state of applying them once; for an id that is
\* not in their map they change nothing; each removes the entry of that id
\* only and leaves the other two maps, and everything else, as they are.
C29_RemovesAreIdempotent ==
    LET m == Machine(lastCb) IN
    \A id \in RemovableIds :
       /\ remove_client(remove_client(m, id), id) = remove_client(m, id)
       /\ remove_extractor(remove_extractor(m, id), id) = remove_extractor(m, id)
       /\ remove_response(remove_response(m, id), id) = remove_response(m, id)
       /\ id \notin DOMAIN root.clients => remove_client(m, id) = m
       /\ id \notin DOMAIN root.extractors => remove_extractor(m, id) = m
       /\ id \notin DOMAIN root.responses => remove_response(m, id) = m
       /\ remove_client(m, id) =
             [m EXCEPT !.root.clients =
                          [j \in DOMAIN root.clients \ {id} |-> root.clients[j]]]
       /\ remove_extractor(m, id) =
             [m EXCEPT !.root.extractors =
                          [j \in DOMAIN root.extractors \ {id} |->
                               root.extractors[j]]]
       /\ remove_response(m, id) =
             [m EXCEPT !.root.responses =
                          [j \in DOMAIN root.responses \ {id} |->
                               root.responses[j]]]

\* The three maps hold entries at once, for different calls.
C29_Witness ==
    /\ root.extractors # <<>>
    /\ root.clients # <<>>
    /\ root.responses # <<>>
    /\ DOMAIN root.responses # DOMAIN root.clients

\* Context ids the host has not used yet.
FreshIds == (1..(MaxExchanges + 1)) \ DOMAIN host.ctx

\* C30: before any callback the active context of the root reactor is the
\* root context's own id; and create_http_context(id) on the root reactor
\* makes a new reactor under exactly that id (the one it returns when the
\* creation waker is registered, and the one in the handoff slot) and leaves
\* the active context, like everything but the slot and the table, as it
\* was.
C30_CreateKeepsActiveContext ==
    /\ lastCb.kind = "none"
          => root.active_cid = [kind |-> "Root", id |-> root.context_id]
    /\ \A x \in FreshIds :
          LET m == Machine(lastCb)
              m1 == create_http_context(m, x)
          IN /\ m1.root.active_cid = root.active_cid
             /\ m1.root.new_http_reactor = x
             /\ m1.root.http_reactors = root.http_reactors \cup {x}
             /\ DOMAIN m1.http = DOMAIN http \cup {x}
             /\ m1.http[x] = NewHttpReactor
             /\ \A y \in DOMAIN http : m1.http[y] = http[y]
             /\ m1 = [m EXCEPT !.http = m1.http,
                               !.root.new_http_reactor = x,
                               !.root.http_reactors = m1.root.http_reactors]

\* An exchange is the active context and the creation waker is registered
\* when a further exchange could be created.
C30_Witness ==
    /\ root.active_cid.kind = "Http"
    /\ root.context_create_waker
    /\ state = "Started"
    /\ ~root.done
    /\ FreshIds # {}

\* The futures queued for a poll.
WokenTasks(m) == {t \in DOMAIN m.tasks : m.tasks[t].woken}

\* The pending futures with a waker registered for stage e of exchange x.
RegisteredFor(x, e) ==
    {w.task : w \in {v \in http[x].wakers : v.event = e}}
        \cap {t \in DOMAIN tasks : tasks[t].st = "pending"}

\* C31: notify(stage) on the reactor of an exchange queues exactly the
\* futures whose waker is registered under that stage, none registered under
\* an earlier or later stage, and leaves every registration in place, so a
\* second notification of the stage wakes the same wakers again; in a stage
\* callback the future of the exchange is polled exactly when it had a
\* waker registered for the stage of the callback.
C31_NotifyWakesExactStage ==
    /\ [](\A x \in DOMAIN http : \A e \in EventKind :
             LET m == Machine(lastCb)
                 m1 == notify(m, x, e)
                 again == notify([m1 EXCEPT !.tasks = tasks], x, e)
             IN /\ WokenTasks(m1) = WokenTasks(m) \cup RegisteredFor(x, e)
                /\ m1.http[x].wakers = http[x].wakers
                /\ m1.http[x].current_event = e
                /\ \A y \in DOMAIN http \ {x} : m1.http[y] = http[y]
                /\ WokenTasks(again) = WokenTasks(m1)
                /\ again.http = m1.http)
    /\ [][lastCb'.kind = "stage"
            => LET x == lastCb'.cid.id
               IN (\E i \in DOMAIN pollLog' : pollLog'[i].task = x)
                     <=> x \in RegisteredFor(x, lastCb'.event)]_vars

\* The request headers were notified to an exchange whose future has a
\* waker registered for the response headers: the future was not polled.
C31_Witness ==
    /\ lastCb.kind = "stage"
    /\ lastCb.event = RequestHeaders
    /\ lastCb.cid.id \in DOMAIN tasks
    /\ tasks[lastCb.cid.id].st = "pending"
    /\ \E w \in http[lastCb.cid.id].wakers :
          w.event = ResponseHeaders /\ w.task = lastCb.cid.id
    /\ pollLog = <<>>

\* The stage a future has a waker for was notified and the future polled.
C31_WitnessWoken ==
    /\ lastCb.kind = "stage"
    /\ \E i \in StagePolls :
          /\ pollLog[i].task = lastCb.cid.id
          /\ pollLog[i].e = lastCb.event
          /\ ~pollLog[i].first
          /\ pollLog[i].ready

\* The future of exchange x is suspended in a wait for ExchangeComplete.
AwaitsExchangeComplete(x) ==
    /\ x \in DOMAIN tasks
    /\ tasks[x].st = "pending"
    /\ tasks[x].pc <= Len(filter)
    /\ filter[tasks[x].pc] = Wait(ExchangeComplete)

\* C32: when the host signals the completion of an exchange, ExchangeComplete
\* is notified to the reactor of the exchange, so a future that awaits
\* ExchangeComplete is polled ready in that callback and goes on.
C32_CompletionNotifiesExchangeComplete ==
    [][\A x \in Exchanges :
          Completes(x) /\ AwaitsExchangeComplete(x)
              => /\ \E i \in DOMAIN pollLog' :
                       /\ pollLog'[i].kind = "stage"
                       /\ pollLog'[i].task = x
                       /\ pollLog'[i].e = ExchangeComplete
                       /\ pollLog'[i].ready
                 /\ tasks'[x].pc > tasks[x].pc]_vars

RequestPhaseStages == Start..RequestTrailers

\* C33: set_paused(b) writes the request flag when the current stage is
\* Start..RequestTrailers and the response flag otherwise, and nothing else
\* of the reactor (the other flag, the stage, the cancelled flag, the
\* wakers); paused() reads that flag and does not depend on the other one;
\* notify changes neither flag.
C33_PauseFlagOfCurrentPhase ==
    \A x \in DOMAIN http :
       LET r == http[x]
           inRequest == r.current_event \in RequestPhaseStages
       IN /\ \A b \in BOOLEAN :
                LET r1 == set_paused(r, b)
                IN /\ r1.paused_request = IF inRequest THEN b ELSE r.paused_request
                   /\ r1.paused_response = IF inRequest THEN r.paused_response ELSE b
                   /\ r1.current_event = r.current_event
                   /\ r1.cancelled_request = r.cancelled_request
                   /\ r1.wakers = r.wakers
                   /\ r1.last_id = r.last_id
                   /\ paused(r1) = b
          /\ paused(r) = IF inRequest THEN r.paused_request ELSE r.paused_response
          /\ inRequest => paused([r EXCEPT !.paused_response = ~@]) = paused(r)
          /\ ~inRequest => paused([r EXCEPT !.paused_request = ~@]) = paused(r)
          /\ \A e \in EventKind :
                LET r2 == notify(Machine(lastCb), x, e).http[x]
                IN /\ r2.paused_request = r.paused_request
                   /\ r2.paused_response = r.paused_response

\* An exchange in the response phase whose request flag is still set while
\* its response flag is clear.
C33_Witness ==
    \E x \in DOMAIN http :
       /\ http[x].current_event \notin RequestPhaseStages
       /\ http[x].paused_request
       /\ ~http[x].paused_response

\* The last callback was a stage callback of a stage that has handlers.
HandledCallback == lastCb.kind = "stage" /\ lastCb.event \in HandledStages

HandlerFailed == \E i \in DOMAIN handlerLog : handlerLog[i].result = "err"

\* C34: in a stage callback the handlers registered for the stage are called
\* in the order of their registration, each after notify recorded the stage
\* in the reactor and before the drain made its first poll; when none fails
\* all of them have been called, so they ran before the filter future that
\* awaits the stage was polled.  Callbacks of other kinds and stages call
\* none.
C34_HandlersBetweenNotifyAndDrain ==
    /\ \A i \in DOMAIN handlerLog :
          /\ handlerLog[i].index = i
          /\ handlerLog[i].stage = lastCb.event
          /\ handlerLog[i].polls = 0
    /\ HandledCallback /\ ~HandlerFailed => Len(handlerLog) = NumHandlers
    /\ ~HandledCallback => handlerLog = <<>>

\* Both handlers of the stage ran, and the drain then polled the filter
\* future that was waiting for the stage.
C34_Witness ==
    /\ HandledCallback
    /\ ~HandlerFailed
    /\ Len(handlerLog) = NumHandlers
    /\ \E i \in StagePolls :
          /\ pollLog[i].task = lastCb.cid.id
          /\ pollLog[i].e = lastCb.event
          /\ pollLog[i].ready

\* C35: when a handler of the stage returns an error, the handlers after it
\* are not called, the callback still drains the executor (no woken future
\* is left unpolled, and the future waiting for the stage of the callback
\* has been polled) and returns Pause or Continue according to paused().
C35_HandlerErrorIsContained ==
    HandledCallback /\ HandlerFailed
        => LET x == lastCb.cid.id
           IN /\ \A i \in DOMAIN handlerLog :
                    handlerLog[i].result = "err" <=> i = Len(handlerLog)
              /\ \A t \in DOMAIN tasks : tasks[t].st = "pending" => ~tasks[t].woken
              /\ outer.st = "running" => ~outer.woken
              /\ ~SuspendedOnStage(x, lastCb.event)
              /\ lastCb.action = IF paused(http[x]) THEN "Pause" ELSE "Continue"

\* The first of two handlers failed; the drain polled the filter future
\* that was waiting for the stage.
C35_Witness ==
    /\ HandledCallback
    /\ Len(handlerLog) = 1
    /\ handlerLog[1].result = "err"
    /\ \E i \in StagePolls :
          /\ pollLog[i].task = lastCb.cid.id
          /\ pollLog[i].e = lastCb.event
          /\ ~pollLog[i].first
          /\ pollLog[i].ready

\* The exchanges whose reactor has the cancelled flag set.
Cancelled == {x \in DOMAIN http : http[x].cancelled_request}

\* C36: the cancelled flag of a reactor, once set, stays set as long as the
\* reactor exists, and while the exchange is cancelled the host receives no
\* request-resume for it, neither from a poll of a later callback nor from
\* launch when the filter returns; a filter that returned with the
\* exchange cancelled caused no request-resume in its last poll.
C36_CancelledNeverResumed ==
    /\ [](\A x \in DOMAIN comp : comp[x].cancelled => comp[x].request = 0)
    /\ [][\A x \in Cancelled :
             /\ x \in DOMAIN http' => http'[x].cancelled_request
             /\ host'.resumes[x]["Request"] <= host.resumes[x]["Request"]]_vars

\* The filter sent a response, then awaited an outbound call; the response
\* of the call arrived and the filter returned with the exchange cancelled
\* and paused.
C36_Witness ==
    /\ lastCb.kind = "call_response"
    /\ \E x \in Cancelled :
          /\ x \in DOMAIN comp
          /\ comp[x].cancelled
          /\ comp[x].paused
          /\ tasks[x].st = "done"
          /\ \E i \in CallPolls : pollLog[i].task = x /\ pollLog[i].ready

\* The step is a creation callback that found the configuration Started and
\* no creation waker, and returned the error responder.
CreationRejected ==
    /\ lastCb'.kind = "create"
    /\ lastCb'.action = "error"
    /\ state = "Started"

\* C37: a creation that is rejected because no creation waker is registered
\* leaves the root reactor as it was, the reactor of the rejected exchange
\* being neither in the table nor in the handoff slot; and no filter future
\* ever exists for an exchange that has the error responder.
C37_RejectedCreationLeavesNoTrace ==
    /\ [][CreationRejected => root' = root]_vars
    /\ [](\A x \in DOMAIN tasks : host.ctx[x] # "error")

\* The polls of filter futures in the drain of the last callback.
FilterPolls == {i \in StagePolls \cup CallPolls : pollLog[i].task # ConfigTask}

\* Exchange x has a pause flag set in the second reactor and not in the
\* first.
PauseSet(r, r1) ==
    \/ ~r.paused_request /\ r1.paused_request
    \/ ~r.paused_response /\ r1.paused_response

\* C38: whenever the future of the filter of exchange X is polled in a
\* drain, the active context is X, so the exchange paused by the first poll
\* of a Request is the one whose filter polled it; and a callback sets a
\* pause flag only of an exchange whose filter future it polled.
C38_PausedExchangeIsThePollingOne ==
    /\ [](\A i \in FilterPolls : pollLog[i].active = HttpCid(pollLog[i].task))
    /\ [][\A x \in DOMAIN http \cap DOMAIN http' :
             PauseSet(http[x], http'[x])
                 => \E i \in DOMAIN pollLog' : pollLog'[i].task = x]_vars

\* C39: for a filter future that holds Exchange<S> and every stage E,
\* wait_for_event::<E> is accepted (S: Before<E>) exactly when E has a
\* higher rank than S; in particular ExchangeComplete can be awaited from
\* every earlier stage.
C39_BeforeIsStrictRankOrder ==
    \A x \in DOMAIN tasks :
       tasks[x].S \in EventKind
           => /\ \A E \in EventKind : Before(tasks[x].S, E) <=> E > tasks[x].S
              /\ tasks[x].S < ExchangeComplete
                    => Before(tasks[x].S, ExchangeComplete)

\* C40: behind the HttpContextAdapter of pdk-core every stage callback of
\* the host reaches the wrapped per-exchange adapter: the stage recorded by
\* the reactor of a live exchange is the stage the host delivered last, and
\* no callback is answered by the adapter without the wrapped context.
C40_AdapterForwardsEveryCallback ==
    /\ lastCb.kind # "adapter_default"
    /\ \A x \in DOMAIN host.ctx :
          host.ctx[x] = "live" => http[x].current_event = host.hstage[x]

====
